---- MODULE Spec2Model ----
(***************************************************************************)
(* Auto-dispatch of patrol units to hotspots (utils/autoDispatch).         *)
(* One call of autoDispatchOfficers is a run of the state machine:         *)
(* Call binds the arguments and runs the prologue (sort, filter), each     *)
(* ProcessHotspot is one iteration of the for-of loop, Return hands the    *)
(* accumulated list to the caller, and Release drops the finished frame.   *)
(* The variables pc .. assignedPatrolsForHotspot are the frame of the      *)
(* invocation that is running; a second invocation, suspended or finished, *)
(* is kept in other.                                                       *)
(***************************************************************************)
EXTENDS Integers, Sequences, FiniteSets

VARIABLES
    pc,                         \* "idle" | "loop" | "done" | "error" (an exception left the call)
    hotspots,                   \* argument: Hotspot[]
    patrols,                    \* argument: PatrolRoute[]
    sortedHotspots,             \* const sortedHotspots
    availablePatrols,           \* const availablePatrols
    assignedPatrolIds,          \* Set<string>
    assignments,                \* DispatchAssignment[]
    idx,                        \* number of hotspots of sortedHotspots already iterated
    requiredOfficers,           \* loop local of the last iteration
    patrolsWithDistance,        \* loop local of the last iteration
    assignedPatrolsForHotspot,  \* loop local of the last iteration
    args,                       \* the two arrays as the caller passed them (history)
    other,                      \* the frame of a second invocation
    summary,                    \* the caller's formatDispatchSummary(assignments), or <<>>
    measure,                    \* a direct calculateDistance call: its arguments and result, or NULL
    mounted,                    \* whether the CrimeMap component has rendered
    autoDispatchEnabled,        \* CrimeMap state
    selectedHour,               \* CrimeMap state
    selectedDate,               \* CrimeMap state
    hotspotsState,              \* CrimeMap state  hotspots
    isLoadingHotspots,          \* CrimeMap state
    patrolsData,                \* usePatrolRoutes().data, defaulted to []
    dispatchAssignments,        \* the useMemo value of the last render
    memoDeps,                   \* the dependencies that value was computed for
    inFlight,                   \* the fetchHotspots calls awaiting their response
    fetchCount,                 \* fetchHotspots calls started so far
    fetchedFor                  \* the hour and date whose response hotspotsState holds (history)

frame == <<pc, hotspots, patrols, sortedHotspots, availablePatrols, assignedPatrolIds,
           assignments, idx, requiredOfficers, patrolsWithDistance,
           assignedPatrolsForHotspot, args>>

(* the state of the CrimeMap component *)
crimeMap == <<mounted, autoDispatchEnabled, selectedHour, selectedDate, hotspotsState,
              isLoadingHotspots, patrolsData, dispatchAssignments, memoDeps, inFlight,
              fetchCount, fetchedFor>>

(* the state of the engine and of its direct callers *)
engine == <<frame, other, summary>>

vars == <<pc, hotspots, patrols, sortedHotspots, availablePatrols, assignedPatrolIds,
          assignments, idx, requiredOfficers, patrolsWithDistance,
          assignedPatrolsForHotspot, args, other, summary, measure, mounted,
          autoDispatchEnabled, selectedHour, selectedDate, hotspotsState,
          isLoadingHotspots, patrolsData, dispatchAssignments, memoDeps, inFlight,
          fetchCount, fetchedFor>>

-----------------------------------------------------------------------------
(* Bounds of the explored inputs *)
MaxHotspots == 2
MaxPatrols == 3
MaxSmallPatrols == 2
MaxNoisyHotspots == 3
MaxFetches == 3

(* An absent optional object field *)
NULL == [absent |-> TRUE]

(* The value read from an object under a key it lacks; never a valid rank *)
UNDEFINED == -1

(* what reading a property inherited from Object.prototype yields, such as
   severityOrder['constructor']: a function or an object, truthy and not a
   number *)
INHERITED == -2

(* Number.NaN; no difference of two ranks comes near it *)
NaN == 1000

(* keys every object literal inherits from Object.prototype *)
InheritedKeys == {"constructor", "toString", "valueOf", "hasOwnProperty", "__proto__"}

(* risk_level strings: the four of the Hotspot type and one outside it *)
RiskLevels == {"critical", "high", "medium", "low", "extreme"}

(* status strings: 'active', one other status of the PatrolRoute type, and one
   outside the type *)
Statuses == {"active", "paused", "off_duty"}

(* Coordinates in whole even degrees *)
Points == {[lat |-> 0, lon |-> 0], [lat |-> 10, lon |-> 10]}

(* A wider grid for the distance itself: both hemispheres, a pole, and
   longitudes on either side of the antimeridian *)
GridPoints ==
    {[lat |-> la, lon |-> lo] : la \in {-60, 0, 10, 90}, lo \in {-170, 0, 10, 180}}

PatrolIdOf(n) == <<"u1", "u2", "u3", "u4", "u5">>[n]

-----------------------------------------------------------------------------
(* Fixed-point trigonometry: sin(k degrees) * Scale for k = 0..90 *)
SinTab ==
  <<0, 175, 349, 523, 698, 872, 1045, 1219, 1392, 1564, 1736, 1908, 2079,
    2250, 2419, 2588, 2756, 2924, 3090, 3256, 3420, 3584, 3746, 3907, 4067, 4226,
    4384, 4540, 4695, 4848, 5000, 5150, 5299, 5446, 5592, 5736, 5878, 6018, 6157,
    6293, 6428, 6561, 6691, 6820, 6947, 7071, 7193, 7314, 7431, 7547, 7660, 7771,
    7880, 7986, 8090, 8192, 8290, 8387, 8480, 8572, 8660, 8746, 8829, 8910, 8988,
    9063, 9135, 9205, 9272, 9336, 9397, 9455, 9511, 9563, 9613, 9659, 9703, 9744,
    9781, 9816, 9848, 9877, 9903, 9925, 9945, 9962, 9976, 9986, 9994, 9998, 10000>>

(* the fixed-point unit: sin(90 degrees) *)
Scale == SinTab[91]

(* Math.sin of an angle given in whole degrees *)
Sin(d) ==
    LET m == d % 360
    IN  IF m <= 90 THEN SinTab[m + 1]
        ELSE IF m <= 180 THEN SinTab[180 - m + 1]
        ELSE IF m <= 270 THEN 0 - SinTab[m - 180 + 1]
        ELSE 0 - SinTab[360 - m + 1]

(* Math.cos of an angle given in whole degrees *)
Cos(d) == Sin(90 - d)

(* Earth's radius in km *)
R == 6371

(* one degree in microradians (Math.PI / 180) *)
MicroRadPerDeg == 17453

(* 2 * Math.atan2(Math.sqrt(a), Math.sqrt(1 - a)) in whole degrees, for a given
   as a * Scale^2: atan2(sqrt a, sqrt(1 - a)) is the angle t of 0..90 degrees
   with sin(t)^2 = a, taken here as the largest tabulated one not above a
   (SinTab increases, so the tabulated angles not above a are 0..t) *)
CentralAngle(a) ==
    2 * (Cardinality({k \in 0..90 : SinTab[k + 1] * SinTab[k + 1] <= a}) - 1)

(* The latitudes and longitudes that occur in the explored inputs *)
Lats == {p.lat : p \in Points \cup GridPoints}
Lons == {p.lon : p \in Points \cup GridPoints}

(* Haversine distance in whole km between two points given in even degrees,
   tabulated over the coordinates that occur *)
Haversine ==
    [lat1 \in Lats, lon1 \in Lons, lat2 \in Lats, lon2 \in Lons |->
        LET hLat == (lat2 - lat1) \div 2
            hLon == (lon2 - lon1) \div 2
            a == Sin(hLat) * Sin(hLat)
                 + ((Cos(lat1) * Cos(lat2)) \div Scale)
                   * ((Sin(hLon) * Sin(hLon)) \div Scale)
            c == CentralAngle(a)
        IN  (R * ((c * MicroRadPerDeg) \div 1000)) \div 1000]

(* mutant of calculateDistance: the result keeps the sign of the latitude step *)
calculateDistanceSigned(lat1, lon1, lat2, lon2) ==
    IF lat2 < lat1
    THEN 0 - Haversine[lat1, lon1, lat2, lon2]
    ELSE Haversine[lat1, lon1, lat2, lon2]

(* Calculate distance between two points (Haversine formula) *)
calculateDistance(lat1, lon1, lat2, lon2) == Haversine[lat1, lon1, lat2, lon2]

-----------------------------------------------------------------------------
(* IEEE doubles near zero, where the grid above has no resolution. A positive
   double is [exp |-> k, mant |-> m]: the value (m / 1000) * 2^k with
   1000 <= m < 2000; the number 0 is FloatZero. *)
FloatZero == [zero |-> TRUE]

(* the exponent of the smallest positive double, 2^-1074 *)
MinExp == 0 - 1074

(* rounding to the nearest double: a value of at most half the smallest
   positive double becomes 0 *)
RoundToDouble(k, m) ==
    IF k < MinExp - 1 \/ (k = MinExp - 1 /\ m = 1000)
    THEN FloatZero
    ELSE [exp |-> k, mant |-> m]

(* x * y on doubles *)
Times(x, y) ==
    IF x = FloatZero \/ y = FloatZero
    THEN FloatZero
    ELSE LET m == (x.mant * y.mant) \div 1000
         IN  IF m >= 2000
             THEN RoundToDouble(x.exp + y.exp + 1, m \div 2)
             ELSE RoundToDouble(x.exp + y.exp, m)

(* x / 2 on doubles away from the smallest ones *)
Halved(x) == IF x = FloatZero THEN FloatZero ELSE RoundToDouble(x.exp - 1, x.mant)

(* Math.sqrt on doubles *)
Sqrt(x) ==
    IF x = FloatZero
    THEN FloatZero
    ELSE LET n == IF x.exp % 2 = 0 THEN x.mant * 1000 ELSE x.mant * 2000
             r == CHOOSE q \in 1000..2000 : q * q <= n /\ (q + 1) * (q + 1) > n
         IN  [exp |-> (x.exp - (x.exp % 2)) \div 2, mant |-> r]

(* Math.PI / 180, the number 2 and R = 6371 as doubles *)
RadPerDeg == [exp |-> 0 - 6, mant |-> 1117]
Two == [exp |-> 1, mant |-> 1000]
EarthRadius == [exp |-> 12, mant |-> 1555]

(* the latitudes of the near regime: 2^e degrees *)
MinNearExp == 0 - 590
MaxNearExp == 0 - 470
NearLatitudes == {FloatZero} \cup {[exp |-> e, mant |-> 1000] : e \in MinNearExp..MaxNearExp}

(* calculateDistance(0, lon, lat2, lon) in doubles for a latitude lat2 of the
   near regime: lat2 - 0 is lat2 and dLon is 0, so the second summand of a is
   0; Math.sin(x) is x and Math.atan2(y, 1) is y for arguments this small, and
   1 - a rounds to 1 *)
calculateDistanceNear(lat2) ==
    LET dLat == Times(lat2, RadPerDeg)
        sinHalf == Halved(dLat)
        a == Times(sinHalf, sinHalf)
        c == Times(Two, Sqrt(a))
    IN  Times(EarthRadius, c)

(* mutant of getRequiredOfficers: the low/default branch yields no officer *)
getRequiredOfficersNoDefault(riskLevel) ==
    CASE riskLevel = "critical" -> 3
      [] riskLevel = "high" -> 2
      [] riskLevel = "medium" -> 1
      [] OTHER -> 0

(* Determine required officers based on severity *)
getRequiredOfficers(riskLevel) ==
    CASE riskLevel = "critical" -> 3
      [] riskLevel = "high" -> 2
      [] riskLevel = "medium" -> 1
      [] OTHER -> 1

(* mutant of getPatrolPosition: the live position is ignored *)
getPatrolPositionStatic(patrol) == [lat |-> patrol.lat, lon |-> patrol.lon]

(* Get patrol's current position *)
getPatrolPosition(patrol) ==
    IF patrol.current_position # NULL
    THEN patrol.current_position
    ELSE [lat |-> patrol.lat, lon |-> patrol.lon]

(* const severityOrder = { critical: 0, high: 1, medium: 2, low: 3 }, looked up
   by key; a key the object and its prototype lack reads as undefined, a key
   of Object.prototype reads as the inherited member *)
severityOrder(level) ==
    CASE level = "critical" -> 0
      [] level = "high" -> 1
      [] level = "medium" -> 2
      [] level = "low" -> 3
      [] level \in InheritedKeys -> INHERITED
      [] OTHER -> UNDEFINED

(* mutant of OrElse: the fallback rank is 0, as in  || 0 *)
OrElseZero(v, d) == IF v = UNDEFINED \/ v = 0 THEN 0 ELSE v

(* JavaScript's  v || d  on a number-or-undefined: 0 and undefined are falsy *)
OrElse(v, d) == IF v = UNDEFINED \/ v = 0 THEN d ELSE v

(* mutant of ToNumberThrows: converting an object to a number throws *)
ToNumberThrowsOnObject(v) == v = INHERITED

(* whether the conversion the - operator applies to v throws: it does not for a
   number, nor for a plain function or object, which convert through their
   string to NaN *)
ToNumberThrows(v) == FALSE

(* x - y in JavaScript *)
Minus(x, y) == IF x = INHERITED \/ y = INHERITED THEN NaN ELSE x - y

(* the comparator of the hotspot sort *)
CompareSeverity(a, b) ==
    Minus(OrElse(severityOrder(a.risk_level), 3), OrElse(severityOrder(b.risk_level), 3))

(* whether a call of the comparator throws while hs is sorted *)
ComparatorThrows(hs) ==
    /\ Len(hs) >= 2
    /\ \E k \in 1..Len(hs) : ToNumberThrows(OrElse(severityOrder(hs[k].risk_level), 3))

(* what Array.prototype.sort makes of a comparator's result: NaN counts as +0 *)
SortCompare(v) == IF v = NaN THEN 0 ELSE v

(* mutant of CompareDistance: farthest first *)
CompareDistanceDescending(a, b) == b.distance - a.distance

(* the comparator of the candidate sort *)
CompareDistance(a, b) == a.distance - b.distance

(* mutant of InsertHotspot: x goes before the elements it compares equal to *)
InsertHotspotBeforeEqual(s, x) ==
    LET n == Cardinality({j \in 1..Len(s) : SortCompare(CompareSeverity(s[j], x)) < 0})
    IN  SubSeq(s, 1, n) \o <<x>> \o SubSeq(s, n + 1, Len(s))

(* Array.prototype.sort is stable: x goes after every element of the sorted s
   that does not compare greater than x *)
InsertHotspot(s, x) ==
    LET n == Cardinality({j \in 1..Len(s) : SortCompare(CompareSeverity(s[j], x)) <= 0})
    IN  SubSeq(s, 1, n) \o <<x>> \o SubSeq(s, n + 1, Len(s))

RECURSIVE SortHotspots(_)
SortHotspots(s) ==
    IF s = <<>> THEN <<>>
    ELSE InsertHotspot(SortHotspots(SubSeq(s, 1, Len(s) - 1)), s[Len(s)])

(* whether the comparator orders the elements of hs consistently: elements it
   calls equal compare alike with every third one *)
ConsistentComparator(hs) ==
    \A k1, k2, k3 \in 1..Len(hs) :
        SortCompare(CompareSeverity(hs[k1], hs[k2])) = 0
        => /\ (SortCompare(CompareSeverity(hs[k2], hs[k3])) = 0)
               <=> (SortCompare(CompareSeverity(hs[k1], hs[k3])) = 0)
           /\ (SortCompare(CompareSeverity(hs[k2], hs[k3])) < 0)
               <=> (SortCompare(CompareSeverity(hs[k1], hs[k3])) < 0)

(* the results [...hs].sort(comparator) can have: the stable sort, or, with a
   comparator that is not consistent on hs, an order the engine is free to
   choose *)
SortOutcomes(hs) ==
    IF ConsistentComparator(hs)
    THEN {SortHotspots(hs)}
    ELSE {[k \in 1..Len(hs) |-> hs[f[k]]] :
             f \in {g \in [1..Len(hs) -> 1..Len(hs)] :
                       \A i, j \in 1..Len(hs) : i # j => g[i] # g[j]}}

(* mutant of InsertCandidate: x goes before the elements it compares equal to *)
InsertCandidateBeforeEqual(s, x) ==
    LET n == Cardinality({j \in 1..Len(s) : CompareDistance(s[j], x) < 0})
    IN  SubSeq(s, 1, n) \o <<x>> \o SubSeq(s, n + 1, Len(s))

(* Array.prototype.sort is stable: x goes after every element of the sorted s
   that is not farther than x *)
InsertCandidate(s, x) ==
    LET n == Cardinality({j \in 1..Len(s) : CompareDistance(s[j], x) <= 0})
    IN  SubSeq(s, 1, n) \o <<x>> \o SubSeq(s, n + 1, Len(s))

RECURSIVE SortCandidates(_)
SortCandidates(s) ==
    IF s = <<>> THEN <<>>
    ELSE InsertCandidate(SortCandidates(SubSeq(s, 1, Len(s) - 1)), s[Len(s)])

-----------------------------------------------------------------------------
(* mutant of FilterAvailable: the status is not looked at *)
FilterAvailableAnyStatus(ps, ids) == SelectSeq(ps, LAMBDA p : p.id \notin ids)

(* patrols.filter(p => p.status === 'active' && !assignedPatrolIds.has(p.id)) *)
FilterAvailable(ps, ids) ==
    SelectSeq(ps, LAMBDA p : p.status = "active" /\ p.id \notin ids)

(* mutant of FilterUnassigned: units already assigned stay candidates *)
FilterUnassignedKeepAll(ps, ids) == ps

(* availablePatrols.filter(p => !assignedPatrolIds.has(p.id)) *)
FilterUnassigned(ps, ids) == SelectSeq(ps, LAMBDA p : p.id \notin ids)

(* .map(patrol => ({ patrol, distance })) for the hotspot being processed *)
WithDistance(ps, hotspot) ==
    [k \in 1..Len(ps) |->
        LET pos == getPatrolPosition(ps[k])
        IN  [patrol |-> ps[k],
             distance |-> calculateDistance(hotspot.latitude, hotspot.longitude,
                                            pos.lat, pos.lon)]]

(* mutant of TakeCount: the loop stops one short, as with  i < requiredOfficers - 1 *)
TakeCountOneShort(required, candidates) ==
    IF required - 1 < Len(candidates) THEN required - 1 ELSE Len(candidates)

(* mutant of TakeCount: the loop is bounded by the candidates only *)
TakeCountUncapped(required, candidates) == Len(candidates)

(* the bound of  for (i = 0; i < requiredOfficers && i < patrolsWithDistance.length; i++) *)
TakeCount(required, candidates) ==
    IF required < Len(candidates) THEN required ELSE Len(candidates)

(* mutant of TakePatrols: the taken patrols are pushed farthest first *)
TakePatrolsReversed(candidates, n) == [k \in 1..n |-> candidates[n + 1 - k].patrol]

(* the patrols pushed by the assignment loop, in push order *)
TakePatrols(candidates, n) == [k \in 1..n |-> candidates[k].patrol]

(* mutant of PushAssignment: the entry carries the number of units it got *)
PushAssignmentCountAsRequired(as, hotspot, assigned, required) ==
    IF Len(assigned) > 0
    THEN Append(as, [hotspot |-> hotspot, assignedPatrols |-> assigned,
                     requiredOfficers |-> Len(assigned)])
    ELSE as

(* mutant of PushAssignment: the entry carries a copy of the fields the engine reads *)
PushAssignmentCoreFields(as, hotspot, assigned, required) ==
    IF Len(assigned) > 0
    THEN Append(as, [hotspot |-> [latitude |-> hotspot.latitude,
                                  longitude |-> hotspot.longitude,
                                  risk_level |-> hotspot.risk_level],
                     assignedPatrols |-> assigned, requiredOfficers |-> required])
    ELSE as

(* mutant of PushAssignment: the entry is pushed even when no unit was assigned *)
PushAssignmentAlways(as, hotspot, assigned, required) ==
    Append(as, [hotspot |-> hotspot, assignedPatrols |-> assigned,
                requiredOfficers |-> required])

(* if (assignedPatrolsForHotspot.length > 0) assignments.push({...}) *)
PushAssignment(as, hotspot, assigned, required) ==
    IF Len(assigned) > 0
    THEN Append(as, [hotspot |-> hotspot, assignedPatrols |-> assigned,
                     requiredOfficers |-> required])
    ELSE as

(* assignments.reduce((sum, a) => sum + a.assignedPatrols.length, 0) *)
RECURSIVE SumAssigned(_)
SumAssigned(as) ==
    IF as = <<>> THEN 0
    ELSE SumAssigned(SubSeq(as, 1, Len(as) - 1)) + Len(as[Len(as)].assignedPatrols)

(* assignments.filter(a => a.hotspot.risk_level === level).length *)
CountLevel(as, level) == Len(SelectSeq(as, LAMBDA a : a.hotspot.risk_level = level))

(* mutant of formatDispatchSummary: the total counts assignments, not units *)
formatDispatchSummaryByEntries(as) ==
    <<Len(as), " officers dispatched (", CountLevel(as, "critical"), " critical, ",
      CountLevel(as, "high"), " high priority)">>

(* Format dispatch summary for display: the template string, piece by piece *)
formatDispatchSummary(as) ==
    <<SumAssigned(as), " officers dispatched (", CountLevel(as, "critical"), " critical, ",
      CountLevel(as, "high"), " high priority)">>

(* mutant of CallerHotspots: the sort runs on the argument array itself *)
CallerHotspotsSortedInPlace(hs) == SortHotspots(hs)

(* the caller's hotspots array after  [...hotspots].sort(...): the spread makes
   a copy, so the array is as it was passed *)
CallerHotspots(hs) == hs

(* mutant of NewAssignedIds: the set outlives the call *)
NewAssignedIdsLeftOver(left) == left

(* const assignedPatrolIds = new Set<string>(): empty, whatever an earlier
   call left behind *)
NewAssignedIds(left) == {}

(* the frame of an invocation that has not been entered *)
IdleFrame ==
    [pc |-> "idle", hotspots |-> <<>>, patrols |-> <<>>, sortedHotspots |-> <<>>,
     availablePatrols |-> <<>>, assignedPatrolIds |-> {}, assignments |-> <<>>,
     idx |-> 0, requiredOfficers |-> 0, patrolsWithDistance |-> <<>>,
     assignedPatrolsForHotspot |-> <<>>,
     args |-> [hotspots |-> <<>>, patrols |-> <<>>]]

-----------------------------------------------------------------------------
(* The inputs explored: every list of at most MaxHotspots hotspots and every
   list of at most MaxPatrols patrol records. Ids carry no meaning beyond
   equality, so the k-th record's id is one already used or the next fresh one. *)
HotspotRecords ==
    {[latitude |-> p.lat, longitude |-> p.lon, risk_level |-> r] :
        p \in Points, r \in RiskLevels}

(* untracked at either point, or tracked away from the static pair *)
PositionOptions ==
    {[lat |-> p.lat, lon |-> p.lon, current_position |-> NULL] : p \in Points}
    \cup {[lat |-> 0, lon |-> 0, current_position |-> [lat |-> 10, lon |-> 10]]}

PatrolRecords(ids) ==
    {[id |-> i, status |-> s, lat |-> o.lat, lon |-> o.lon,
      current_position |-> o.current_position] :
        i \in ids, s \in Statuses, o \in PositionOptions}

SeqsUpTo(S, n) == UNION {[1..k -> S] : k \in 0..n}

IdsWellFormed(ps) ==
    \A k \in 1..Len(ps) :
        \E n \in 1..k :
            /\ ps[k].id = PatrolIdOf(n)
            /\ \A m \in 1..(n - 1) : \E j \in 1..(k - 1) : ps[j].id = PatrolIdOf(m)

PatrolLists ==
    {ps \in SeqsUpTo(PatrolRecords({PatrolIdOf(n) : n \in 1..MaxPatrols}), MaxPatrols) :
        IdsWellFormed(ps)}

HotspotLists == SeqsUpTo(HotspotRecords, MaxHotspots)

(* Four-unit inputs: units u1..u4 in this order, each active or paused, each
   untracked at one of the points *)
FourPatrolLists ==
    {[k \in 1..4 |-> [id |-> PatrolIdOf(k), status |-> st[k], lat |-> at[k].lat,
                      lon |-> at[k].lon, current_position |-> NULL]] :
        st \in [1..4 -> {"active", "paused"}], at \in [1..4 -> Points]}

-----------------------------------------------------------------------------
(* the hours and dates the time slider and the calendar offer; the component
   starts at the current hour and date *)
Hours == {9, 10}
Dates == {"Mon", "Tue"}
FirstHour == 9
FirstDate == "Mon"

Init ==
    /\ pc = "idle"
    /\ hotspots = <<>>
    /\ patrols = <<>>
    /\ sortedHotspots = <<>>
    /\ availablePatrols = <<>>
    /\ assignedPatrolIds = {}
    /\ assignments = <<>>
    /\ idx = 0
    /\ requiredOfficers = 0
    /\ patrolsWithDistance = <<>>
    /\ assignedPatrolsForHotspot = <<>>
    /\ args = [hotspots |-> <<>>, patrols |-> <<>>]
    /\ other = IdleFrame
    /\ summary = <<>>
    /\ measure = NULL
    /\ mounted = FALSE
    /\ autoDispatchEnabled = FALSE
    /\ selectedHour = FirstHour
    /\ selectedDate = FirstDate
    /\ hotspotsState = <<>>
    /\ isLoadingHotspots = FALSE
    /\ patrolsData = <<>>
    /\ dispatchAssignments = <<>>
    /\ memoDeps = <<>>
    /\ inFlight = {}
    /\ fetchCount = 0
    /\ fetchedFor = NULL

(* autoDispatchOfficers(hs, ps) is entered: fresh locals, sorted copy of the
   hotspots, the active patrols *)
Enter(hs, ps) ==
    /\ args' = [hotspots |-> hs, patrols |-> ps]
    /\ hotspots' = CallerHotspots(hs)
    /\ patrols' = ps
    /\ assignments' = <<>>
    /\ assignedPatrolIds' = NewAssignedIds(assignedPatrolIds)
    /\ sortedHotspots' \in SortOutcomes(hs)
    /\ availablePatrols' = FilterAvailable(ps, NewAssignedIds(assignedPatrolIds))
    /\ pc' = IF ComparatorThrows(hs) THEN "error" ELSE "loop"
    /\ idx' = 0
    /\ requiredOfficers' = 0
    /\ patrolsWithDistance' = <<>>
    /\ assignedPatrolsForHotspot' = <<>>

(* a call on any of the explored inputs *)
Call ==
    /\ pc = "idle"
    /\ \E hs \in HotspotLists, ps \in PatrolLists : Enter(hs, ps)
    /\ UNCHANGED <<other, summary, measure, crimeMap>>

(* one iteration of  for (const hotspot of sortedHotspots) *)
ProcessHotspot ==
    /\ pc = "loop"
    /\ idx < Len(sortedHotspots)
    /\ LET hotspot == sortedHotspots[idx + 1]
           required == getRequiredOfficers(hotspot.risk_level)
           candidates == SortCandidates(
                             WithDistance(FilterUnassigned(availablePatrols, assignedPatrolIds),
                                          hotspot))
           assigned == TakePatrols(candidates, TakeCount(required, candidates))
       IN  /\ requiredOfficers' = required
           /\ patrolsWithDistance' = candidates
           /\ assignedPatrolsForHotspot' = assigned
           /\ assignedPatrolIds' =
                  assignedPatrolIds \cup {assigned[k].id : k \in 1..Len(assigned)}
           /\ assignments' = PushAssignment(assignments, hotspot, assigned, required)
    /\ idx' = idx + 1
    /\ UNCHANGED <<measure, crimeMap>>
    /\ UNCHANGED <<pc, hotspots, patrols, sortedHotspots, availablePatrols, args, other,
                   summary>>

(* return assignments *)
Return ==
    /\ pc = "loop"
    /\ idx = Len(sortedHotspots)
    /\ pc' = "done"
    /\ UNCHANGED <<measure, crimeMap>>
    /\ UNCHANGED <<hotspots, patrols, sortedHotspots, availablePatrols, assignedPatrolIds,
                   assignments, idx, requiredOfficers, patrolsWithDistance,
                   assignedPatrolsForHotspot, args, other, summary>>

(* the caller is finished with the result; the frame and its locals are gone *)
Release ==
    /\ pc = "done"
    /\ pc' = "idle"
    /\ hotspots' = <<>>
    /\ patrols' = <<>>
    /\ sortedHotspots' = <<>>
    /\ availablePatrols' = <<>>
    /\ assignedPatrolIds' = {}
    /\ assignments' = <<>>
    /\ idx' = 0
    /\ requiredOfficers' = 0
    /\ patrolsWithDistance' = <<>>
    /\ assignedPatrolsForHotspot' = <<>>
    /\ args' = [hotspots |-> <<>>, patrols |-> <<>>]
    /\ summary' = <<>>
    /\ UNCHANGED <<other, measure, crimeMap>>

(* Small inputs, for runs that follow or interleave with one another: 'high'
   and 'low' hotspots at (0,0); active units u1, u2, .. in this order,
   untracked at (0,0) *)
SmallHotspotLists ==
    SeqsUpTo({[latitude |-> 0, longitude |-> 0, risk_level |-> r] : r \in {"high", "low"}},
             MaxHotspots)

SmallPatrolLists ==
    {[k \in 1..n |-> [id |-> PatrolIdOf(k), status |-> "active", lat |-> 0, lon |-> 0,
                      current_position |-> NULL]] : n \in 0..MaxSmallPatrols}

(* Noisy inputs: hotspots at (0,0) whose risk_level is 'high', 'low', a string
   no object knows, or the name of an inherited member; units u1, u2, .. at
   (0,0), 'active' or of a status outside the type *)
NoisyRiskLevels == {"high", "low", "extreme", "constructor"}

NoisyStatuses == {"active", "off_duty"}

NoisyHotspotLists ==
    SeqsUpTo({[latitude |-> 0, longitude |-> 0, risk_level |-> r] : r \in NoisyRiskLevels},
             MaxNoisyHotspots)

NoisyPatrolLists ==
    UNION {{[k \in 1..n |-> [id |-> PatrolIdOf(k), status |-> st[k], lat |-> 0, lon |-> 0,
                              current_position |-> NULL]] : st \in [1..n -> NoisyStatuses]} :
           n \in 0..MaxSmallPatrols}

(* Inputs with the descriptive fields of the Hotspot and PatrolRoute types,
   which the engine never reads *)
DescribedHotspotLists ==
    SeqsUpTo({[latitude |-> p.lat, longitude |-> p.lon, risk_level |-> r,
               predicted_crime_type |-> t, location_name |-> n] :
                  p \in Points, r \in {"high", "low"}, t \in {"theft"},
                  n \in {"Market", "Harbour"}},
             MaxHotspots)

DescribedPatrolLists ==
    UNION {{[k \in 1..n |-> [id |-> PatrolIdOf(k), name |-> nm[k], officer |-> "Okoro",
                              status |-> st[k], lat |-> 0, lon |-> 0,
                              current_position |-> NULL]] :
               st \in [1..n -> {"active", "paused"}], nm \in [1..n -> {"Alpha", "Bravo"}]} :
           n \in 0..MaxSmallPatrols}

(* the running invocation's frame as a record *)
ThisFrame ==
    [pc |-> pc, hotspots |-> hotspots, patrols |-> patrols,
     sortedHotspots |-> sortedHotspots, availablePatrols |-> availablePatrols,
     assignedPatrolIds |-> assignedPatrolIds, assignments |-> assignments,
     idx |-> idx, requiredOfficers |-> requiredOfficers,
     patrolsWithDistance |-> patrolsWithDistance,
     assignedPatrolsForHotspot |-> assignedPatrolsForHotspot, args |-> args]

(* a call on a small input *)
CallSmall ==
    /\ pc = "idle"
    /\ \E hs \in SmallHotspotLists, ps \in SmallPatrolLists : Enter(hs, ps)
    /\ UNCHANGED <<other, summary, measure, crimeMap>>

(* the caller calls again after a call has returned; other remembers one of
   the calls that have returned *)
CallAgain ==
    /\ pc = "done"
    /\ \E hs \in SmallHotspotLists, ps \in SmallPatrolLists : Enter(hs, ps)
    /\ other' \in {other, ThisFrame}
    /\ UNCHANGED <<summary, measure, crimeMap>>

(* mutant of ResumeIds: one set of assigned ids serves every invocation *)
ResumeIdsShared(saved, running) == running

(* assignedPatrolIds is declared inside the function: an invocation that
   resumes finds the set it built itself, whatever ran in between *)
ResumeIds(saved, running) == saved

(* the running invocation is suspended and the other one runs: every local
   belongs to its invocation *)
Switch ==
    /\ other' = ThisFrame
    /\ pc' = other.pc
    /\ hotspots' = other.hotspots
    /\ patrols' = other.patrols
    /\ sortedHotspots' = other.sortedHotspots
    /\ availablePatrols' = other.availablePatrols
    /\ assignedPatrolIds' = ResumeIds(other.assignedPatrolIds, assignedPatrolIds)
    /\ assignments' = other.assignments
    /\ idx' = other.idx
    /\ requiredOfficers' = other.requiredOfficers
    /\ patrolsWithDistance' = other.patrolsWithDistance
    /\ assignedPatrolsForHotspot' = other.assignedPatrolsForHotspot
    /\ args' = other.args
    /\ UNCHANGED <<summary, measure, crimeMap>>

(* the loop over the sorted hotspots, from the i-th on *)
RECURSIVE DispatchFrom(_, _, _, _, _)
DispatchFrom(sorted, avail, ids, as, i) ==
    IF i > Len(sorted)
    THEN as
    ELSE LET hotspot == sorted[i]
             required == getRequiredOfficers(hotspot.risk_level)
             candidates == SortCandidates(WithDistance(FilterUnassigned(avail, ids), hotspot))
             assigned == TakePatrols(candidates, TakeCount(required, candidates))
         IN  DispatchFrom(sorted, avail,
                          ids \cup {assigned[k].id : k \in 1..Len(assigned)},
                          PushAssignment(as, hotspot, assigned, required), i + 1)

(* Auto-dispatch officers to hotspots based on severity and proximity: one
   invocation run from entry to return with nothing in between *)
autoDispatchOfficers(hs, ps) ==
    DispatchFrom(SortHotspots(hs), FilterAvailable(ps, {}), {}, <<>>, 1)

(* the body of the dispatchAssignments memo *)
useMemoValue(enabled, hs, ps) ==
    IF ~enabled \/ Len(hs) = 0 \/ Len(ps) = 0
    THEN <<>>
    ELSE autoDispatchOfficers(hs, ps)

(* mutant of DepsChanged: the memo depends on [autoDispatchEnabled, hotspots] only *)
DepsChangedWithoutPatrols(old, new) ==
    old = <<>> \/ <<old[1], old[2]>> # <<new[1], new[2]>>

(* useMemo recomputes when a dependency of [autoDispatchEnabled, hotspots,
   patrols] is another value than at the last render; an array that is replaced
   by an equal one is recomputed to the same value *)
DepsChanged(old, new) == old # new

(* a render of the component with the given state *)
Render(enabled, hs, ps) ==
    /\ memoDeps' = <<enabled, hs, ps>>
    /\ dispatchAssignments' =
           IF DepsChanged(memoDeps, <<enabled, hs, ps>>)
           THEN useMemoValue(enabled, hs, ps)
           ELSE dispatchAssignments

(* the effect on [selectedHour, selectedDate] runs: fetchHotspots sets the
   loading flag and awaits api.getHotspotsWithDateTime(date, hour) *)
StartFetch(hour, date) ==
    /\ fetchCount' = fetchCount + 1
    /\ inFlight' = inFlight \cup {[id |-> fetchCount + 1, hour |-> hour, date |-> date]}
    /\ isLoadingHotspots' = TRUE

(* the component mounts: first render, then the effects *)
Mount ==
    /\ ~mounted
    /\ mounted' = TRUE
    /\ Render(autoDispatchEnabled, hotspotsState, patrolsData)
    /\ StartFetch(selectedHour, selectedDate)
    /\ UNCHANGED <<autoDispatchEnabled, selectedHour, selectedDate, hotspotsState,
                   patrolsData, fetchedFor, engine, measure>>

(* onClick of the Auto-Dispatch toggle *)
ToggleAutoDispatch ==
    /\ mounted
    /\ autoDispatchEnabled' = ~autoDispatchEnabled
    /\ Render(~autoDispatchEnabled, hotspotsState, patrolsData)
    /\ UNCHANGED <<mounted, selectedHour, selectedDate, hotspotsState, isLoadingHotspots,
                   patrolsData, inFlight, fetchCount, fetchedFor, engine, measure>>

(* onValueChange of the time slider *)
SelectHour ==
    /\ mounted
    /\ fetchCount < MaxFetches
    /\ \E h \in Hours \ {selectedHour} :
        /\ selectedHour' = h
        /\ StartFetch(h, selectedDate)
    /\ Render(autoDispatchEnabled, hotspotsState, patrolsData)
    /\ UNCHANGED <<mounted, autoDispatchEnabled, selectedDate, hotspotsState, patrolsData,
                   fetchedFor, engine, measure>>

(* onSelect of the calendar *)
SelectDate ==
    /\ mounted
    /\ fetchCount < MaxFetches
    /\ \E d \in Dates \ {selectedDate} :
        /\ selectedDate' = d
        /\ StartFetch(selectedHour, d)
    /\ Render(autoDispatchEnabled, hotspotsState, patrolsData)
    /\ UNCHANGED <<mounted, autoDispatchEnabled, selectedHour, hotspotsState, patrolsData,
                   fetchedFor, engine, measure>>

(* the response of one outstanding fetch arrives (the server's hotspots, or the
   mock ones api.getHotspotsWithDateTime falls back to): setHotspots(data), then
   setIsLoadingHotspots(false) in the finally block *)
FetchResponse ==
    /\ \E f \in inFlight, data \in SmallHotspotLists :
        /\ inFlight' = inFlight \ {f}
        /\ hotspotsState' = data
        /\ fetchedFor' = [hour |-> f.hour, date |-> f.date]
        /\ Render(autoDispatchEnabled, data, patrolsData)
    /\ isLoadingHotspots' = FALSE
    /\ UNCHANGED <<mounted, autoDispatchEnabled, selectedHour, selectedDate, patrolsData,
                   fetchCount, engine, measure>>

(* usePatrolRoutes delivers new data *)
PatrolsUpdate ==
    /\ mounted
    /\ \E ps \in SmallPatrolLists :
        /\ patrolsData' = ps
        /\ Render(autoDispatchEnabled, hotspotsState, ps)
    /\ UNCHANGED <<mounted, autoDispatchEnabled, selectedHour, selectedDate, hotspotsState,
                   isLoadingHotspots, inFlight, fetchCount, fetchedFor, engine, measure>>

(* calculateDistance is called on the point (0, 0) and a point of the same
   longitude whose latitude is in the near regime *)
Measure ==
    /\ \E lat2 \in NearLatitudes :
        measure' = [lat1 |-> FloatZero, lon1 |-> FloatZero, lat2 |-> lat2,
                    lon2 |-> FloatZero, distance |-> calculateDistanceNear(lat2)]
    /\ UNCHANGED <<engine, crimeMap>>

(* the caller formats the summary of the list it was returned *)
Summarize ==
    /\ pc = "done"
    /\ summary = <<>>
    /\ summary' = formatDispatchSummary(assignments)
    /\ UNCHANGED <<frame, other, measure, crimeMap>>

(* a call on an input with descriptive fields *)
CallDescribed ==
    /\ pc = "idle"
    /\ \E hs \in DescribedHotspotLists, ps \in DescribedPatrolLists : Enter(hs, ps)
    /\ UNCHANGED <<other, summary, measure, crimeMap>>

(* a call on a noisy input *)
CallNoisy ==
    /\ pc = "idle"
    /\ \E hs \in NoisyHotspotLists, ps \in NoisyPatrolLists : Enter(hs, ps)
    /\ UNCHANGED <<other, summary, measure, crimeMap>>

(* a call on one hotspot and one active unit of the wider grid *)
CallGrid ==
    /\ pc = "idle"
    /\ \E g \in GridPoints, q \in GridPoints :
        Enter(<<[latitude |-> g.lat, longitude |-> g.lon, risk_level |-> "medium"]>>,
              <<[id |-> PatrolIdOf(1), status |-> "active", lat |-> q.lat, lon |-> q.lon,
                 current_position |-> NULL]>>)
    /\ UNCHANGED <<other, summary, measure, crimeMap>>

(* a call on a four-unit input *)
CallFour ==
    /\ pc = "idle"
    /\ \E hs \in HotspotLists, ps \in FourPatrolLists : Enter(hs, ps)
    /\ UNCHANGED <<other, summary, measure, crimeMap>>

Next ==
    \/ Call
    \/ ProcessHotspot
    \/ Return
    \/ Release

Spec == Init /\ [][Next]_vars

(* runs on the four-unit inputs *)
NextFour ==
    \/ CallFour
    \/ ProcessHotspot
    \/ Return
    \/ Summarize
    \/ Release

SpecFour == Init /\ [][NextFour]_vars

(* runs on inputs with descriptive fields *)
NextDescribed ==
    \/ CallDescribed
    \/ ProcessHotspot
    \/ Return
    \/ Release

SpecDescribed == Init /\ [][NextDescribed]_vars

(* runs on noisy inputs *)
NextNoisy ==
    \/ CallNoisy
    \/ ProcessHotspot
    \/ Return
    \/ Release

SpecNoisy == Init /\ [][NextNoisy]_vars

(* the CrimeMap component *)
NextCrimeMap ==
    \/ Mount
    \/ ToggleAutoDispatch
    \/ SelectHour
    \/ SelectDate
    \/ FetchResponse
    \/ PatrolsUpdate

SpecCrimeMap == Init /\ [][NextCrimeMap]_vars

(* direct calls of calculateDistance in the near regime *)
NextNear == Measure

SpecNear == Init /\ [][NextNear]_vars

(* runs on the wider grid *)
NextGrid ==
    \/ CallGrid
    \/ ProcessHotspot
    \/ Return
    \/ Release

SpecGrid == Init /\ [][NextGrid]_vars

(* two invocations whose steps interleave *)
NextInterleave ==
    \/ CallSmall
    \/ ProcessHotspot
    \/ Return
    \/ Switch
    \/ Release

SpecInterleave == Init /\ [][NextInterleave]_vars

(* calls that follow one another *)
NextRepeat ==
    \/ CallSmall
    \/ ProcessHotspot
    \/ Return
    \/ CallAgain

SpecRepeat == Init /\ [][NextRepeat]_vars

-----------------------------------------------------------------------------
(* Vocabulary of the properties, stated from the outside of the algorithm *)

(* the severity order critical > high > medium > low as a rank, 0 the most
   severe; a level outside the four ranks below all of them *)
SeverityRank(level) ==
    CASE level = "critical" -> 0
      [] level = "high" -> 1
      [] level = "medium" -> 2
      [] level = "low" -> 3
      [] OTHER -> 4

Recognized == {"critical", "high", "medium", "low"}

Range(s) == {s[k] : k \in 1..Len(s)}

(* the unit ids of the k-th assignment *)
AssignedIds(k) == {u.id : u \in Range(assignments[k].assignedPatrols)}

(* the unit ids of the assignments before the k-th *)
IdsBefore(k) == UNION {AssignedIds(j) : j \in 1..(k - 1)}

(* distance of a unit from a hotspot, from the live position when the unit has one *)
UnitDistance(h, u) ==
    IF u.current_position # NULL
    THEN calculateDistance(h.latitude, h.longitude,
                           u.current_position.lat, u.current_position.lon)
    ELSE calculateDistance(h.latitude, h.longitude, u.lat, u.lon)

(* distance of a unit's static lat/lon pair from a hotspot *)
StaticDistance(h, u) == calculateDistance(h.latitude, h.longitude, u.lat, u.lon)

ActiveIndices == {i \in 1..Len(patrols) : patrols[i].status = "active"}

RECURSIVE SumOver(_, _)
SumOver(S, f) ==
    IF S = {} THEN 0
    ELSE LET x == CHOOSE y \in S : TRUE IN f[x] + SumOver(S \ {x}, f)

(* units received, over the whole output, by the hotspots equal to h *)
Received(h) ==
    SumOver({k \in 1..Len(assignments) : assignments[k].hotspot = h},
            [k \in 1..Len(assignments) |-> Len(assignments[k].assignedPatrols)])

(* how many input hotspots equal h *)
Occurrences(h) == Cardinality({i \in 1..Len(hotspots) : hotspots[i] = h})

-----------------------------------------------------------------------------
(* C1: no patrol unit id appears in the assignedPatrols of two different
   assignments of one run, whatever the input (duplicate ids included). *)
C1_UnitInAtMostOneAssignment ==
    \A a, b \in 1..Len(assignments) :
        a # b => AssignedIds(a) \cap AssignedIds(b) = {}

(* a finished run with two assignments on an input where two active records
   share an id *)
C1_Witness ==
    /\ pc = "done"
    /\ Len(assignments) = 2
    /\ \E i, j \in ActiveIndices : i # j /\ patrols[i].id = patrols[j].id

(* C2 (as claimed): the returned assignments are in descending severity order
   critical > high > medium > low. *)
C2_OutputSeverityDescending ==
    pc = "done" =>
        \A i, j \in 1..Len(assignments) :
            (/\ i < j
             /\ assignments[i].hotspot.risk_level \in Recognized
             /\ assignments[j].hotspot.risk_level \in Recognized)
            => SeverityRank(assignments[i].hotspot.risk_level)
                   <= SeverityRank(assignments[j].hotspot.risk_level)

(* C3 (as claimed): if a hotspot received fewer units than it requires (or was
   omitted), no input hotspot of strictly lower severity received any unit. *)
C3_SeverityPrioritized ==
    pc = "done" =>
        \A h, g \in Range(hotspots) :
            (/\ h.risk_level \in Recognized
             /\ g.risk_level \in Recognized
             /\ SeverityRank(g.risk_level) > SeverityRank(h.risk_level)
             /\ Received(h) < Occurrences(h) * getRequiredOfficers(h.risk_level))
            => Received(g) = 0

(* C4: every assigned unit has status exactly 'active'. *)
C4_OnlyActiveAssigned ==
    \A k \in 1..Len(assignments) :
        \A u \in Range(assignments[k].assignedPatrols) : u.status = "active"

(* a hotspot left short of its requirement while a unit that is not active is
   strictly closer to it than every unit it received *)
C4_Witness ==
    /\ pc = "done"
    /\ \E k \in 1..Len(assignments) :
        /\ Len(assignments[k].assignedPatrols) < assignments[k].requiredOfficers
        /\ \E i \in 1..Len(patrols) :
            /\ patrols[i].status # "active"
            /\ \A u \in Range(assignments[k].assignedPatrols) :
                   UnitDistance(assignments[k].hotspot, patrols[i])
                       < UnitDistance(assignments[k].hotspot, u)

(* C5: assignedPatrols.length <= requiredOfficers for every assignment; a
   shorter list is a normal result. *)
C5_AtMostRequired ==
    \A k \in 1..Len(assignments) :
        Len(assignments[k].assignedPatrols) <= assignments[k].requiredOfficers

(* a finished run whose first assignment is full although more active units
   were on offer, and whose second is partial *)
C5_Witness ==
    /\ pc = "done"
    /\ Len(assignments) = 2
    /\ Len(assignments[1].assignedPatrols) = assignments[1].requiredOfficers
    /\ assignments[1].requiredOfficers < Len(availablePatrols)
    /\ Len(assignments[2].assignedPatrols) < assignments[2].requiredOfficers

(* C6: getRequiredOfficers yields 3 for 'critical', 2 for 'high', 1 for
   'medium', 1 for 'low' and 1 for every other string. *)
C6_RequiredOfficersTable ==
    idx > 0 =>
        LET level == sortedHotspots[idx].risk_level
        IN  /\ level = "critical" => requiredOfficers = 3
            /\ level = "high" => requiredOfficers = 2
            /\ level = "medium" => requiredOfficers = 1
            /\ level = "low" => requiredOfficers = 1
            /\ level \notin Recognized => requiredOfficers = 1

(* the requirement was computed for a level outside the four *)
C6_Witness ==
    /\ idx > 0
    /\ sortedHotspots[idx].risk_level \notin Recognized
    /\ requiredOfficers = 1

(* C7: the units a hotspot receives are the nearest of the active units still
   unassigned when it is processed: none of them is farther from the hotspot
   than such a unit that was not chosen. *)
C7_NearestChosen ==
    \A k \in 1..Len(assignments) :
        LET h == assignments[k].hotspot
            chosen == Range(assignments[k].assignedPatrols)
        IN  \A u \in chosen :
                \A i \in ActiveIndices :
                    (patrols[i].id \notin IdsBefore(k) /\ patrols[i] \notin chosen)
                    => UnitDistance(h, u) <= UnitDistance(h, patrols[i])

(* a unit later in the input was chosen over a strictly farther one that comes
   earlier in the input and was still unassigned *)
C7_Witness ==
    /\ pc = "done"
    /\ \E k \in 1..Len(assignments) :
        LET h == assignments[k].hotspot
            chosen == Range(assignments[k].assignedPatrols)
        IN  \E i, j \in ActiveIndices :
                /\ i < j
                /\ patrols[j] \in chosen
                /\ patrols[i] \notin chosen
                /\ patrols[i].id \notin IdsBefore(k)
                /\ UnitDistance(h, patrols[j]) < UnitDistance(h, patrols[i])

(* C8: a unit is ranked by the distance of its current_position when it has
   one, and of its static lat/lon pair only when it has none. *)
C8_RankedByCurrentPosition ==
    idx > 0 =>
        \A e \in Range(patrolsWithDistance) :
            /\ e.patrol.current_position # NULL =>
                   e.distance = calculateDistance(sortedHotspots[idx].latitude,
                                                  sortedHotspots[idx].longitude,
                                                  e.patrol.current_position.lat,
                                                  e.patrol.current_position.lon)
            /\ e.patrol.current_position = NULL =>
                   e.distance = calculateDistance(sortedHotspots[idx].latitude,
                                                  sortedHotspots[idx].longitude,
                                                  e.patrol.lat, e.patrol.lon)

(* a candidate carrying both positions, which lie at different distances *)
C8_Witness ==
    /\ idx > 0
    /\ \E e \in Range(patrolsWithDistance) :
        /\ e.patrol.current_position # NULL
        /\ StaticDistance(sortedHotspots[idx], e.patrol)
               # UnitDistance(sortedHotspots[idx], e.patrol)

(* C9: no assignment of the output has an empty assignedPatrols; a hotspot
   processed on an empty pool produces no entry. *)
C9_NoEmptyAssignment ==
    \A k \in 1..Len(assignments) : Len(assignments[k].assignedPatrols) > 0

(* a hotspot was processed after the pool ran dry and left no entry *)
C9_Witness ==
    /\ pc = "done"
    /\ Len(assignments) >= 1
    /\ Len(assignments) < Len(hotspots)
    /\ patrolsWithDistance = <<>>

(* the hotspots of s with risk_level r, in order *)
OfLevel(s, r) == SelectSeq(s, LAMBDA h : h.risk_level = r)

IsPrefix(s, t) == Len(s) <= Len(t) /\ s = SubSeq(t, 1, Len(s))

(* C10: hotspots of equal risk_level are processed, and appear in the output,
   in their relative input order; for input [A, B] both 'high' and exactly two
   active units, A receives the units and B none. *)
C10_EqualLevelInputOrder ==
    pc # "idle" =>
        /\ \A r \in RiskLevels :
            /\ OfLevel(sortedHotspots, r) = OfLevel(hotspots, r)
            /\ IsPrefix(OfLevel([k \in 1..Len(assignments) |-> assignments[k].hotspot], r),
                        OfLevel(hotspots, r))
        /\ (/\ pc = "done"
            /\ Len(hotspots) = 2
            /\ hotspots[1].risk_level = "high"
            /\ hotspots[2].risk_level = "high"
            /\ Cardinality(ActiveIndices) = 2)
           => /\ Len(assignments) = 1
              /\ assignments[1].hotspot = hotspots[1]
              /\ Len(assignments[1].assignedPatrols) = 2

(* the run on two distinct 'high' hotspots with exactly two active units *)
C10_Witness ==
    /\ pc = "done"
    /\ Len(hotspots) = 2
    /\ hotspots[1].risk_level = "high"
    /\ hotspots[2].risk_level = "high"
    /\ hotspots[1] # hotspots[2]
    /\ Cardinality(ActiveIndices) = 2
    /\ Len(assignments) = 1
    /\ assignments[1].hotspot = hotspots[1]

(* the hotspots of s whose risk_level is in L, in order *)
OfLevels(s, L) == SelectSeq(s, LAMBDA h : h.risk_level \in L)

(* C11 (as claimed): a hotspot with an unrecognized risk_level is processed
   after every hotspot with a recognized level, every 'low' one included.
   Stated for 'high', 'medium' and 'low', on lists without the name of an
   inherited member; 'critical' is left to C2. *)
C11_UnrecognizedAfterRecognized ==
    (\A h \in Range(hotspots) : h.risk_level \notin InheritedKeys) =>
    \A i, j \in 1..Len(sortedHotspots) :
        (i < j /\ sortedHotspots[i].risk_level \notin Recognized)
        => sortedHotspots[j].risk_level \notin {"high", "medium", "low"}

(* C11 (amended): in a list where no risk_level names an inherited member, a
   hotspot with an unrecognized risk_level is processed after every 'high' and
   every 'medium' hotspot; it has the rank of 'low', so among the 'low' and
   the unrecognized hotspots the input order is kept. *)
C11_UnrecognizedRankedAsLow ==
    (pc # "idle" /\ \A h \in Range(hotspots) : h.risk_level \notin InheritedKeys)
    => /\ \A i, j \in 1..Len(sortedHotspots) :
           (i < j /\ sortedHotspots[i].risk_level \notin Recognized)
           => sortedHotspots[j].risk_level \notin {"high", "medium"}
       /\ OfLevels(sortedHotspots,
                   (RiskLevels \cup NoisyRiskLevels) \ {"critical", "high", "medium"})
              = OfLevels(hotspots,
                         (RiskLevels \cup NoisyRiskLevels) \ {"critical", "high", "medium"})

(* an unrecognized hotspot given first was moved behind a 'high' or 'medium' one *)
C11_Witness ==
    /\ pc = "done"
    /\ Len(hotspots) = 2
    /\ hotspots[1].risk_level \notin Recognized
    /\ hotspots[2].risk_level \in {"high", "medium"}
    /\ sortedHotspots = <<hotspots[2], hotspots[1]>>

(* the input of C12: critical at (0,0), low at (10,10), four units at (0,0) of
   which three are active and one is paused *)
C12_Scenario ==
    /\ args.hotspots = <<[latitude |-> 0, longitude |-> 0, risk_level |-> "critical"],
                         [latitude |-> 10, longitude |-> 10, risk_level |-> "low"]>>
    /\ Len(args.patrols) = 4
    /\ \A k \in 1..4 :
        /\ args.patrols[k].lat = 0
        /\ args.patrols[k].lon = 0
        /\ args.patrols[k].current_position = NULL
        /\ args.patrols[k].status \in {"active", "paused"}
    /\ Cardinality({k \in 1..4 : args.patrols[k].status = "active"}) = 3

(* C12: on that input the output is exactly one assignment, for the critical
   hotspot, holding the three active units in input order with
   requiredOfficers 3; the low hotspot has no entry and the paused unit is
   nowhere. *)
C12_CriticalTakesThreeActive ==
    (pc = "done" /\ C12_Scenario) =>
        assignments =
            <<[hotspot |-> args.hotspots[1],
               assignedPatrols |-> SelectSeq(args.patrols, LAMBDA p : p.status = "active"),
               requiredOfficers |-> 3]>>

(* the run on that input has finished, the paused unit being the first given *)
C12_Witness ==
    /\ pc = "done"
    /\ C12_Scenario
    /\ args.patrols[1].status = "paused"
    /\ Len(assignments) = 1

(* C13: autoDispatchOfficers keeps no memory between calls: after any sequence
   of earlier calls, a call returns the same list as an earlier call on the
   same (hotspots, patrols), so a unit assigned earlier is eligible again. *)
C13_SameInputsSameOutput ==
    (pc = "done" /\ other.pc = "done" /\ other.args = args)
    => assignments = other.assignments

(* a call has returned the units that an earlier call on the same input had
   already been given *)
C13_Witness ==
    /\ pc = "done"
    /\ other.pc = "done"
    /\ other.args = args
    /\ Len(other.assignments) = 2
    /\ assignments = other.assignments

(* C14: formatDispatchSummary reports the sum of assignedPatrols.length over
   all assignments, the number of assignments on a 'critical' hotspot and the
   number on a 'high' hotspot; all three are 0 for the empty list. *)
C14_SummaryCounts ==
    summary # <<>> =>
        LET ks == 1..Len(assignments)
        IN  /\ summary[1] = SumOver(ks, [k \in ks |-> Len(assignments[k].assignedPatrols)])
            /\ summary[3] = Cardinality({k \in ks :
                                assignments[k].hotspot.risk_level = "critical"})
            /\ summary[5] = Cardinality({k \in ks :
                                assignments[k].hotspot.risk_level = "high"})
            /\ assignments = <<>> => (summary[1] = 0 /\ summary[3] = 0 /\ summary[5] = 0)

(* the summary of a list with a 'critical' and a 'high' assignment of two
   units each *)
C14_Witness ==
    /\ summary # <<>>
    /\ summary[1] = 4
    /\ summary[3] = 1
    /\ summary[5] = 1

(* C15: calculateDistance is symmetric, never negative, and 0 when both points
   have the same latitude and longitude. *)
C15_DistanceSymmetricNonNegative ==
    idx > 0 =>
        \A e \in Range(patrolsWithDistance) :
            LET h == sortedHotspots[idx]
                u == e.patrol
            IN  /\ e.distance = calculateDistance(u.lat, u.lon, h.latitude, h.longitude)
                /\ e.distance >= 0
                /\ (u.lat = h.latitude /\ u.lon = h.longitude) => e.distance = 0

(* a distance was computed across the antimeridian and between hemispheres *)
C15_Witness ==
    /\ idx > 0
    /\ \E e \in Range(patrolsWithDistance) :
        /\ e.distance > 0
        /\ sortedHotspots[idx].longitude = 180
        /\ e.patrol.lon = -170
        /\ sortedHotspots[idx].latitude = 10
        /\ e.patrol.lat = -60

(* C16: two invocations whose steps interleave do not interfere: each returns
   exactly the list it would return when run alone on its inputs. *)
C16_InterleavedRunsAsAlone ==
    /\ pc = "done" => assignments = autoDispatchOfficers(args.hotspots, args.patrols)
    /\ other.pc = "done" =>
           other.assignments = autoDispatchOfficers(other.args.hotspots, other.args.patrols)

(* one invocation has returned a two-entry list while the other is suspended
   between its two hotspots, having taken a unit of the same id *)
C16_Witness ==
    /\ pc = "done"
    /\ Len(assignments) = 2
    /\ other.pc = "loop"
    /\ other.idx = 1
    /\ Len(other.sortedHotspots) = 2
    /\ other.assignedPatrolIds \cap assignedPatrolIds # {}

(* C17: autoDispatchOfficers leaves its inputs unchanged: the caller's hotspots
   and patrols arrays hold the same records in the same order, with every
   field as passed. *)
C17_InputsUnchanged ==
    pc # "idle" => (hotspots = args.hotspots /\ patrols = args.patrols)

(* a call has returned whose sorted copy differs from the caller's array *)
C17_Witness ==
    /\ pc = "done"
    /\ Len(assignments) = 2
    /\ sortedHotspots # hotspots
    /\ hotspots = args.hotspots
    /\ \E u \in Range(patrols) : u.status # "active"

(* the returned value is a list of assignments made of the records passed *)
IsAssignmentList(as, hs, ps) ==
    \A k \in 1..Len(as) :
        /\ as[k].hotspot \in Range(hs)
        /\ as[k].requiredOfficers \in 1..3
        /\ as[k].assignedPatrols # <<>>
        /\ Range(as[k].assignedPatrols) \subseteq Range(ps)

(* C18: for any risk_level string and any status string, recognized or not, the
   call completes and returns a list of assignments, never an error: no
   exception leaves the call, the loop always has a next hotspot to process or
   returns, and it returns after every hotspot with a list of assignments. *)
C18_NoErrorOutcome ==
    /\ pc \in {"idle", "loop", "done"}
    /\ pc = "loop" => idx \in 0..Len(sortedHotspots)
    /\ pc # "idle" => Len(sortedHotspots) = Len(args.hotspots)
    /\ pc = "done" => /\ idx = Len(args.hotspots)
                      /\ IsAssignmentList(assignments, args.hotspots, args.patrols)

(* a call has returned on hotspots with an unknown level and with the name of an
   inherited member, and on a unit of a status outside the type *)
C18_Witness ==
    /\ pc = "done"
    /\ \E h \in Range(args.hotspots) : h.risk_level = "extreme"
    /\ \E k \in 1..Len(assignments) : assignments[k].hotspot.risk_level = "constructor"
    /\ \E u \in Range(args.patrols) : u.status = "off_duty"
    /\ ~ConsistentComparator(args.hotspots)

(* the unit ids in the list of assignments as *)
IdsIn(as) == UNION {{u.id : u \in Range(as[k].assignedPatrols)} : k \in 1..Len(as)}

(* the active units not yet in any assignment *)
Pool == {i \in ActiveIndices : patrols[i].id \notin IdsIn(assignments)}

Min(a, b) == IF a < b THEN a ELSE b

(* C19: each hotspot that is processed receives exactly min(getRequiredOfficers(
   risk_level), number of active units still unassigned) units, and no unit
   assigned before is a candidate for it. *)
C19_ReceivesMinOfRequiredAndPool ==
    [][(pc = "loop" /\ idx' = idx + 1) =>
          LET h == sortedHotspots[idx + 1]
              n == Min(getRequiredOfficers(h.risk_level), Cardinality(Pool))
          IN  /\ Len(assignedPatrolsForHotspot') = n
              /\ \A e \in Range(patrolsWithDistance') : e.patrol.id \notin IdsIn(assignments)
              /\ {e.patrol : e \in Range(patrolsWithDistance')} = {patrols[i] : i \in Pool}
              /\ IF n = 0
                 THEN assignments' = assignments
                 ELSE /\ Len(assignments') = Len(assignments) + 1
                      /\ assignments'[Len(assignments')].hotspot = h
                      /\ Len(assignments'[Len(assignments')].assignedPatrols) = n]_vars

(* the second hotspot processed found the pool reduced by the first one's units
   and received the rest, fewer than it requires *)
C19_Witness ==
    /\ idx = 2
    /\ Len(assignments) = 2
    /\ Len(assignments[1].assignedPatrols) = 2
    /\ assignments[2].requiredOfficers = 3
    /\ Len(assignments[2].assignedPatrols) = 1
    /\ Len(patrolsWithDistance) = 1
    /\ Cardinality(ActiveIndices) = 3

(* the place of the record u in the input patrols list *)
InputIndex(u) == CHOOSE k \in 1..Len(patrols) : patrols[k] = u

(* C20: of two still-unassigned active units at equal distance from the hotspot
   being processed, the one earlier in the input patrols list is ranked first,
   and is chosen before the other. *)
C20_TiesKeepInputOrder ==
    idx > 0 =>
        \A i, j \in 1..Len(patrolsWithDistance) :
            (i < j /\ patrolsWithDistance[i].distance = patrolsWithDistance[j].distance)
            => /\ InputIndex(patrolsWithDistance[i].patrol)
                      < InputIndex(patrolsWithDistance[j].patrol)
               /\ patrolsWithDistance[j].patrol \in Range(assignedPatrolsForHotspot)
                      => patrolsWithDistance[i].patrol \in Range(assignedPatrolsForHotspot)

(* the second hotspot requires one unit, two unassigned units are nearest to it
   at the same distance, and the earlier one in the input was chosen *)
C20_Witness ==
    /\ idx = 2
    /\ Len(assignments) = 2
    /\ requiredOfficers = 1
    /\ Len(patrolsWithDistance) >= 2
    /\ patrolsWithDistance[1].distance = patrolsWithDistance[2].distance
    /\ assignedPatrolsForHotspot = <<patrolsWithDistance[1].patrol>>
    /\ InputIndex(patrolsWithDistance[1].patrol) < InputIndex(patrolsWithDistance[2].patrol)
    /\ InputIndex(patrolsWithDistance[1].patrol) > 1

(* C21: within every assignment, assignedPatrols is in non-decreasing order of
   distance from the assignment's hotspot, measured from each unit's resolved
   position. *)
C21_AssignedInDistanceOrder ==
    \A k \in 1..Len(assignments) :
        \A i, j \in 1..Len(assignments[k].assignedPatrols) :
            i < j => UnitDistance(assignments[k].hotspot, assignments[k].assignedPatrols[i])
                         <= UnitDistance(assignments[k].hotspot,
                                         assignments[k].assignedPatrols[j])

(* an assignment lists a nearer unit before a strictly farther one although the
   farther one comes first in the input, and one of the two is tracked *)
C21_Witness ==
    /\ pc = "done"
    /\ \E k \in 1..Len(assignments) :
        LET ap == assignments[k].assignedPatrols
            h == assignments[k].hotspot
        IN  /\ Len(ap) >= 2
            /\ UnitDistance(h, ap[1]) < UnitDistance(h, ap[2])
            /\ \E i, j \in 1..Len(patrols) : i < j /\ patrols[i] = ap[2] /\ patrols[j] = ap[1]
            /\ \E u \in Range(ap) : u.current_position # NULL

(* C22: every assignment's requiredOfficers equals getRequiredOfficers of its
   hotspot's risk_level, hence is one of 1, 2, 3. *)
C22_RequiredOfficersField ==
    \A k \in 1..Len(assignments) :
        /\ assignments[k].requiredOfficers
               = getRequiredOfficers(assignments[k].hotspot.risk_level)
        /\ assignments[k].requiredOfficers \in {1, 2, 3}

(* an output whose entries carry 3 and 2 although one of them got fewer units *)
C22_Witness ==
    /\ pc = "done"
    /\ Len(assignments) = 2
    /\ {assignments[1].requiredOfficers, assignments[2].requiredOfficers} = {2, 3}
    /\ \E k \in 1..2 : Len(assignments[k].assignedPatrols) < assignments[k].requiredOfficers

(* C23: each assignment's hotspot is one of the input hotspot records with all
   its fields, the descriptive ones included, and each assigned patrol is one of
   the input unit records unchanged. *)
C23_RecordsPassedThrough ==
    \A k \in 1..Len(assignments) :
        /\ assignments[k].hotspot \in Range(args.hotspots)
        /\ Range(assignments[k].assignedPatrols) \subseteq Range(args.patrols)

(* an output entry carries the location label and crime type of its hotspot and
   the name of its unit *)
C23_Witness ==
    /\ pc = "done"
    /\ Len(assignments) = 2
    /\ assignments[1].hotspot.location_name = "Harbour"
    /\ assignments[1].hotspot.predicted_crime_type = "theft"
    /\ assignments[2].assignedPatrols[1].name = "Bravo"

(* the units in all assignments of the output *)
TotalAssigned ==
    SumOver(1..Len(assignments),
            [k \in 1..Len(assignments) |-> Len(assignments[k].assignedPatrols)])

(* the units all input hotspots require together *)
TotalRequired ==
    SumOver(1..Len(hotspots),
            [k \in 1..Len(hotspots) |-> getRequiredOfficers(hotspots[k].risk_level)])

UniqueIds == \A i, j \in 1..Len(patrols) : i # j => patrols[i].id # patrols[j].id

(* C25: when unit ids are unique, the output assigns min(number of active units,
   sum of getRequiredOfficers over the input hotspots) units in all. *)
C25_TotalIsMinOfActiveAndRequired ==
    (pc = "done" /\ UniqueIds)
    => TotalAssigned = Min(Cardinality(ActiveIndices), TotalRequired)

(* three active units of four went to two hotspots that require five *)
C25_Witness ==
    /\ pc = "done"
    /\ UniqueIds
    /\ Cardinality(ActiveIndices) = 3
    /\ TotalRequired = 5
    /\ TotalAssigned = 3
    /\ Len(assignments) = 2

(* the k-th assignment got fewer units than it requires *)
Partial(k) == Len(assignments[k].assignedPatrols) < assignments[k].requiredOfficers

(* C26: at most one assignment is partially fulfilled, and it is the last of
   the list at every moment of the run, so no hotspot processed after it gets
   an entry. *)
C26_OnlyLastPartial ==
    \A k \in 1..Len(assignments) : Partial(k) => k = Len(assignments)

(* the first hotspot processed was left short and the second was omitted *)
C26_Witness ==
    /\ pc = "done"
    /\ Len(sortedHotspots) = 2
    /\ Len(assignments) = 1
    /\ assignments[1].hotspot = sortedHotspots[1]
    /\ sortedHotspots[2] # sortedHotspots[1]
    /\ Partial(1)

(* C27 (as claimed): no assignment's assignedPatrols contains the same unit id
   twice, also when two active input records share an id. *)
C27_NoIdTwiceInOneAssignment ==
    \A k \in 1..Len(assignments) :
        \A i, j \in 1..Len(assignments[k].assignedPatrols) :
            i # j => assignments[k].assignedPatrols[i].id
                         # assignments[k].assignedPatrols[j].id

(* C24 (as claimed): calculateDistance returns 0 only when the two points are
   identical; for inputs that differ in latitude or longitude the result is
   strictly positive. *)
C24_ZeroOnlyWhenIdentical ==
    measure # NULL =>
        (measure.distance = FloatZero
         => (measure.lat1 = measure.lat2 /\ measure.lon1 = measure.lon2))

(* C28: in the CrimeMap consumer, dispatchAssignments is the empty list whenever
   autoDispatchEnabled is false or the hotspots or the patrols list is empty,
   and otherwise autoDispatchOfficers(hotspots, patrols) for the current
   lists; auto-dispatch starts disabled. *)
C28_DispatchFollowsState ==
    /\ ~mounted => ~autoDispatchEnabled
    /\ mounted =>
        /\ (~autoDispatchEnabled \/ hotspotsState = <<>> \/ patrolsData = <<>>)
               => dispatchAssignments = <<>>
        /\ (autoDispatchEnabled /\ hotspotsState # <<>> /\ patrolsData # <<>>)
               => dispatchAssignments = autoDispatchOfficers(hotspotsState, patrolsData)

(* auto-dispatch is on, both lists are filled after several fetches, and two
   hotspots have units *)
C28_Witness ==
    /\ mounted
    /\ autoDispatchEnabled
    /\ fetchCount = MaxFetches
    /\ Len(hotspotsState) = 2
    /\ Len(patrolsData) = 2
    /\ Len(dispatchAssignments) = 2
    /\ hotspotsState[1].risk_level = "low"

(* C29 (as claimed): once all hotspot fetches have completed, hotspots holds the
   result of the fetch for the most recently selected hour and date, and
   isLoadingHotspots is false only when no fetch is outstanding. *)
C29_LatestSelectionWins ==
    mounted =>
        /\ inFlight = {} => fetchedFor = [hour |-> selectedHour, date |-> selectedDate]
        /\ ~isLoadingHotspots => inFlight = {}

====
